---- MODULE Spec2Model ----
(***************************************************************************)
(* BRCA_devyser: the VCF parsing stage (brca_vcf_parser.py) and the        *)
(* GeneBe annotation stage with its persistent cache (annotate_genebe.py). *)
(*                                                                         *)
(* Strings are sequences of one-character strings, so that the prefix      *)
(* removal of the key normaliser is computed and not assumed.  A table     *)
(* (DataFrame) is a sequence of rows; a missing value (NaN) is Null.       *)
(***************************************************************************)
EXTENDS Integers, Sequences, FiniteSets, TLC

(***************************************************************************)
(* Bounds of the model.                                                    *)
(***************************************************************************)
MaxChromLen == 6
MaxFiles == 2
MaxRows == 2
MaxRuns == 2
MaxDay == 2
MaxVcfFiles == 2
MaxVcfRows == 2

Null == "NaN"

(***************************************************************************)
(* Typed cells: a spreadsheet or DataFrame cell is a string or an integer. *)
(***************************************************************************)
StrCell(s) == [ty |-> "str", s |-> s, n |-> 0]
IntCell(n) == [ty |-> "int", s |-> <<>>, n |-> n]

DigitChar == <<"0", "1", "2", "3", "4", "5", "6", "7", "8", "9">>

RECURSIVE Digits(_)
Digits(n) == IF n < 10 THEN <<DigitChar[n + 1]>>
             ELSE Digits(n \div 10) \o <<DigitChar[(n % 10) + 1]>>

\* Series.astype(str): str(x) of each cell.
AsTypeStr(cell) == IF cell.ty = "int" THEN Digits(cell.n) ELSE cell.s

Lower(c) == CASE c = "C" -> "c" [] c = "H" -> "h" [] c = "R" -> "r" [] OTHER -> c

MatchesChrAt(s, i) ==
    /\ i + 2 <= Len(s)
    /\ Lower(s[i]) = "c"
    /\ Lower(s[i + 1]) = "h"
    /\ Lower(s[i + 2]) = "r"

RECURSIVE ReplaceChrFrom(_, _)
ReplaceChrFrom(s, i) ==
    IF i > Len(s) THEN <<>>
    ELSE IF MatchesChrAt(s, i) THEN ReplaceChrFrom(s, i + 3)
    ELSE <<s[i]>> \o ReplaceChrFrom(s, i + 1)

\* Series.str.replace("chr", "", case=False): every non-overlapping match of
\* the pattern, scanned left to right, is replaced by the empty string.
StrReplaceChr(s) == ReplaceChrFrom(s, 1)

\* A variant key: the four merge columns chr, pos, ref, alt as strings.
MkKey(c, p, r, a) == [chr |-> c, pos |-> p, ref |-> r, alt |-> a]

\* _build_variant_df on one source row.
BuildVariantKey(row) ==
    MkKey(StrReplaceChr(AsTypeStr(row.CHROM)), AsTypeStr(row.POS),
          AsTypeStr(row.REF), AsTypeStr(row.ALT))

\* The service row's merge columns cast to str with the prefix left in place.
NormaliseResponseKeyUnstripped(row) ==
    MkKey(AsTypeStr(row.chr), AsTypeStr(row.pos), AsTypeStr(row.ref),
          AsTypeStr(row.alt))

\* The normalisation of the merge columns of one service row.
NormaliseResponseKey(row) ==
    MkKey(StrReplaceChr(AsTypeStr(row.chr)), AsTypeStr(row.pos),
          AsTypeStr(row.ref), AsTypeStr(row.alt))

\* The normalisation of the merge columns of one row read from the cache file.
LoadKey(row) ==
    MkKey(StrReplaceChr(AsTypeStr(row.chr)), AsTypeStr(row.pos),
          AsTypeStr(row.ref), AsTypeStr(row.alt))

IsDigit(c) == \E i \in 1..10 : DigitChar[i] = c

RECURSIVE ParseNat(_)
ParseNat(s) == IF Len(s) = 0 THEN 0
               ELSE 10 * ParseNat(SubSeq(s, 1, Len(s) - 1))
                    + ((CHOOSE i \in 1..10 : DigitChar[i] = s[Len(s)]) - 1)

\* A text that the spreadsheet reader's type inference turns into an integer.
LooksInt(s) == /\ Len(s) > 0
               /\ \A i \in 1..Len(s) : IsDigit(s[i])
               /\ (Len(s) > 1 => s[1] # "0")

\* to_excel followed by read_excel for one text cell: a column of numerals
\* comes back integer-typed, any other text comes back as text.
ExcelRoundTrip(s) == IF LooksInt(s) THEN IntCell(ParseNat(s)) ELSE StrCell(s)

(***************************************************************************)
(* State.                                                                  *)
(*   annotate_genebe.annotate_folder:                                      *)
(*     pc               position of the current run                        *)
(*     excel_files      the parsed source tables of the input folder       *)
(*     cacheFile        annotated_variants.xlsx: NoFile or its rows        *)
(*     today            date.today()                                       *)
(*     runs             number of runs started, this one included          *)
(*     local_ann, to_annotate, annotated_unique, new_ann                   *)
(*                      the locals of annotate_folder of the same names    *)
(*     loaded           local_ann as returned by _load_local_annotations   *)
(*     cacheAtStart     the cache file as the run found it                 *)
(*     service          the rows the service returns for each key          *)
(*     outputs          the tables written to gnb_anno by this run         *)
(*     failure          why the run ended early, and at which file         *)
(*     prev             the outputs of the run before, when it is rerun     *)
(*   brca_vcf_parser:                                                      *)
(*     vcf_files, variant_counts, vcfOut, vcfPc                            *)
(*   key normaliser on one variant:                                        *)
(*     nRaw, nSrc, nSent, nResp, nStored, nCache, nPc                      *)
(***************************************************************************)
VARIABLES pc, excel_files, cacheFile, today, runs,
          cacheAtStart, local_ann, loaded, to_annotate, annotated_unique,
          new_ann, service, outputs, failure, prev,
          vcf_files, variant_counts, vcfOut, vcfPc,
          nRaw, nSrc, nSent, nResp, nStored, nCache, nPc

annVars == <<pc, excel_files, cacheFile, today, runs,
             cacheAtStart, local_ann, loaded, to_annotate, annotated_unique,
             new_ann, service, outputs, failure, prev>>
vcfVars == <<vcf_files, variant_counts, vcfOut, vcfPc>>
normVars == <<nRaw, nSrc, nSent, nResp, nStored, nCache, nPc>>
vars == <<annVars, vcfVars, normVars>>

NoFile == [exists |-> FALSE, rows |-> <<>>]
NotWritten == [written |-> FALSE, rows |-> <<>>]
NoFailure == [cause |-> "none", file |-> 0]

(***************************************************************************)
(* Tables of annotate_folder.                                              *)
(***************************************************************************)
Seq2Set(s) == {s[i] : i \in 1..Len(s)}

\* An annotation row: the merge columns (key) and the non-key columns.
AnnRow(k, f, g, d) == [key |-> k, freq |-> f, gene |-> g, FIRST_ANNOTATED |-> d]
NullRow(k) == AnnRow(k, Null, Null, Null)

Matches(right, k) == SelectSeq(right, LAMBDA r : r.key = k)

\* The table of keys with its repeated rows left in.
KeepDuplicates(ks) == ks

\* DataFrame.drop_duplicates() on a table of keys: the first of each is kept.
RECURSIVE DropDuplicates(_)
DropDuplicates(ks) ==
    IF ks = <<>> THEN <<>>
    ELSE LET init == DropDuplicates(SubSeq(ks, 1, Len(ks) - 1))
             last == ks[Len(ks)]
         IN  IF last \in Seq2Set(init) THEN init ELSE Append(init, last)

\* left.merge(right, on=merge_cols, how="left") with left a table of keys:
\* left order is kept, every matching right row gives a row, no match gives
\* one row of missing values.
RECURSIVE MergeLeft(_, _)
MergeLeft(ks, right) ==
    IF ks = <<>> THEN <<>>
    ELSE LET m == Matches(right, Head(ks))
         IN  (IF m = <<>> THEN <<NullRow(Head(ks))>> ELSE m)
             \o MergeLeft(Tail(ks), right)

RECURSIVE Concat(_)
Concat(tables) == IF tables = <<>> THEN <<>>
                  ELSE Head(tables) \o Concat(Tail(tables))

VarDf(df) == [i \in 1..Len(df) |-> BuildVariantKey(df[i])]

\* unique_vars of the batch.
UniqueVars(files) ==
    DropDuplicates(Concat([i \in 1..Len(files) |-> VarDf(files[i])]))

AnyNull(r) == r.freq = Null \/ r.gene = Null \/ r.FIRST_ANNOTATED = Null
AllNull(r) == r.freq = Null /\ r.gene = Null /\ r.FIRST_ANNOTATED = Null

\* The rows of the first lookup merge that are sent to the service.
ToAnnotate(merged) ==
    LET sel == SelectSeq(merged, AnyNull)
    IN  [i \in 1..Len(sel) |-> sel[i].key]

\* dropna(axis=0, subset=<non-key columns>, how="all").
DropAllNull(merged) == SelectSeq(merged, LAMBDA r : ~AllNull(r))

\* _load_local_annotations: the stored rows with the merge columns re-read
\* from the spreadsheet, cast to str and stripped of "chr".
LoadLocalAnnotations(file) ==
    IF ~file.exists THEN <<>>
    ELSE [i \in 1..Len(file.rows) |->
            [file.rows[i] EXCEPT !.key =
                LoadKey([chr |-> ExcelRoundTrip(file.rows[i].key.chr),
                         pos |-> ExcelRoundTrip(file.rows[i].key.pos),
                         ref |-> ExcelRoundTrip(file.rows[i].key.ref),
                         alt |-> ExcelRoundTrip(file.rows[i].key.alt)])]]

\* _save_local_annotations.
SaveLocalAnnotations(table) == [exists |-> TRUE, rows |-> table]

\* drop_duplicates(subset=merge_cols, keep="last").
RECURSIVE DropDuplicateKeysKeepLast(_)
DropDuplicateKeysKeepLast(t) ==
    IF t = <<>> THEN <<>>
    ELSE LET rest == DropDuplicateKeysKeepLast(Tail(t))
         IN  IF \E i \in 1..Len(rest) : rest[i].key = Head(t).key
             THEN rest ELSE <<Head(t)>> \o rest

\* drop_duplicates(subset=merge_cols, keep="first").
RECURSIVE DropDuplicateKeys(_)
DropDuplicateKeys(t) ==
    IF t = <<>> THEN <<>>
    ELSE LET init == DropDuplicateKeys(SubSeq(t, 1, Len(t) - 1))
             last == t[Len(t)]
         IN  IF \E i \in 1..Len(init) : init[i].key = last.key
             THEN init ELSE Append(init, last)

\* pd.concat([local_ann, new_ann]) followed by the keep-first deduplication.
AppendAnnotations(cached, fresh) == DropDuplicateKeys(cached \o fresh)

\* One row of annotated_unique merged with one matching row of new_ann:
\* each column keeps its value and takes the new one only where it is missing.
FillRow(a, n) ==
    AnnRow(a.key,
           IF a.freq = Null THEN n.freq ELSE a.freq,
           IF a.gene = Null THEN n.gene ELSE a.gene,
           IF a.FIRST_ANNOTATED = Null THEN n.FIRST_ANNOTATED
                                       ELSE a.FIRST_ANNOTATED)

\* annotated_unique.merge(new_ann, how="left", suffixes=("", "_new")) and the
\* column-wise fillna: the rows are those of annotated_unique.
RECURSIVE FoldFresh(_, _)
FoldFresh(hits, fresh) ==
    IF hits = <<>> THEN <<>>
    ELSE LET a == Head(hits)
             m == Matches(fresh, a.key)
         IN  (IF m = <<>> THEN <<a>>
              ELSE [i \in 1..Len(m) |-> FillRow(a, m[i])])
             \o FoldFresh(Tail(hits), fresh)

\* annotated_unique after a fetch.
CombineAfterFetch(hits, fresh) ==
    IF hits = <<>> THEN fresh ELSE FoldFresh(hits, fresh)

(***************************************************************************)
(* Inputs of annotate_folder: the parsed tables and the service.           *)
(***************************************************************************)
Chr13 == <<"c", "h", "r", "1", "3">>
Chr17 == <<"c", "h", "r", "1", "7">>
RefA == StrCell(<<"A">>)
AltG == StrCell(<<"G">>)

SrcRow(c, p, af) == [CHROM |-> c, POS |-> p, REF |-> RefA, ALT |-> AltG, AF |-> af]

\* Rows of a parsed table.  AF is <<>> when missing (NaN), else <<value>>.
\* The same variant appears prefixed and text-typed, and bare and
\* integer-typed, as the spreadsheet reader returns it.
SourceRows ==
    { SrcRow(StrCell(Chr13), IntCell(5), <<1>>),
      SrcRow(IntCell(13), StrCell(<<"5">>), <<2>>),
      SrcRow(StrCell(Chr17), IntCell(5), <<>>) }

SeqsUpTo(S, n) == UNION {[1..m -> S] : m \in 1..n}

SourceTables == SeqsUpTo(SourceRows, MaxRows)
Batches == SeqsUpTo(SourceTables, MaxFiles)

IsoDates == <<"2025-06-01", "2025-06-02", "2025-06-03", "2025-06-04",
              "2025-06-05">>
\* date.today().isoformat()
IsoFormat(d) == IsoDates[d]

\* What the service may return for one requested key: a row that spells the
\* chromosome with a prefix and leaves one attribute missing, and a row with
\* integer-typed merge columns and every attribute present.
ServiceKinds == {"prefixed", "typed"}
ServiceRow(k, kind) ==
    IF kind = "prefixed"
    THEN [chr |-> StrCell(<<"C", "h", "r">> \o k.chr), pos |-> StrCell(k.pos),
          ref |-> StrCell(k.ref), alt |-> StrCell(k.alt),
          freq |-> "0.1", gene |-> Null]
    ELSE [chr |-> IF LooksInt(k.chr) THEN IntCell(ParseNat(k.chr))
                  ELSE StrCell(k.chr),
          pos |-> IF LooksInt(k.pos) THEN IntCell(ParseNat(k.pos))
                  ELSE StrCell(k.pos),
          ref |-> StrCell(k.ref), alt |-> StrCell(k.alt),
          freq |-> "0.2", gene |-> "BRCA"]

\* The normalised keys of the variants of SourceRows.
SourceKeys == {BuildVariantKey(r) : r \in SourceRows}
Services == [SourceKeys -> SUBSET ServiceKinds]

KindOrder == <<"prefixed", "typed">>

\* The response table: for each requested key in request order, the rows of
\* the kinds the service answered with.
RECURSIVE ServiceTable(_, _)
ServiceTable(ks, ans) ==
    IF ks = <<>> THEN <<>>
    ELSE LET k == Head(ks)
             kinds == SelectSeq(KindOrder, LAMBDA x : x \in ans[k])
         IN  [i \in 1..Len(kinds) |-> ServiceRow(k, kinds[i])]
             \o ServiceTable(Tail(ks), ans)

\* new_ann after the dtype and prefix normalisation and the date stamp.
NormaliseResponse(table, d) ==
    [i \in 1..Len(table) |->
        AnnRow(NormaliseResponseKey(table[i]), table[i].freq, table[i].gene,
               IsoFormat(d))]

(***************************************************************************)
(* The per-file output of annotate_folder.                                 *)
(***************************************************************************)
NoSource == [CHROM |-> StrCell(<<>>), POS |-> StrCell(<<>>), REF |-> StrCell(<<>>),
             ALT |-> StrCell(<<>>), AF |-> <<>>, missing |-> TRUE]
NoAnnotation == [freq |-> Null, gene |-> Null, FIRST_ANNOTATED |-> Null]

Max(a, b) == IF a >= b THEN a ELSE b

\* pd.concat([df, annotated_df.drop(columns=merge_cols)], axis=1) after both
\* indexes are reset: rows are paired by position, the shorter side padded.
ConcatColumns(df, ann) ==
    [i \in 1..Max(Len(df), Len(ann)) |->
        [src |-> IF i <= Len(df)
                 THEN [CHROM |-> df[i].CHROM, POS |-> df[i].POS, REF |-> df[i].REF,
                       ALT |-> df[i].ALT, AF |-> df[i].AF, missing |-> FALSE]
                 ELSE NoSource,
         ann |-> IF i <= Len(ann)
                 THEN [freq |-> ann[i].freq, gene |-> ann[i].gene,
                       FIRST_ANNOTATED |-> ann[i].FIRST_ANNOTATED]
                 ELSE NoAnnotation]]

\* r goes before x in descending AF order, missing AF last.
Before(r, x) == r.src.AF # <<>> /\ (x.src.AF = <<>> \/ r.src.AF[1] > x.src.AF[1])

RECURSIVE InsertByAF(_, _)
InsertByAF(sorted, r) ==
    IF sorted = <<>> THEN <<r>>
    ELSE IF Before(r, Head(sorted)) THEN <<r>> \o sorted
    ELSE <<Head(sorted)>> \o InsertByAF(Tail(sorted), r)

\* sort_values(by="AF", ascending=False): descending, NaN last, equal AF in
\* table order (tables this short are insertion-sorted).
RECURSIVE SortByAF(_)
SortByAF(t) ==
    IF t = <<>> THEN <<>>
    ELSE LET init == SortByAF(SubSeq(t, 1, Len(t) - 1))
         IN  InsertByAF(init, t[Len(t)])

\* The table written for one source file.
AnnotatedTable(df, annotated) ==
    SortByAF(ConcatColumns(df, MergeLeft(VarDf(df), annotated)))

(***************************************************************************)
(* annotate_folder, one run after another on the same cache file.          *)
(***************************************************************************)
NoPrev == [valid |-> FALSE, outputs |-> <<>>]

AnnInit ==
    /\ pc = "start"
    /\ excel_files \in Batches
    /\ cacheFile = NoFile
    /\ today = 1
    /\ runs = 1
    /\ cacheAtStart = NoFile
    /\ local_ann = <<>>
    /\ loaded = <<>>
    /\ to_annotate = <<>>
    /\ annotated_unique = <<>>
    /\ new_ann = <<>>
    /\ service \in Services
    /\ outputs = [i \in 1..Len(excel_files) |-> NotWritten]
    /\ failure = NoFailure
    /\ prev = NoPrev

AnnIdle ==
    /\ pc = "off"
    /\ excel_files = <<>>
    /\ cacheFile = NoFile
    /\ today = 1
    /\ runs = 0
    /\ cacheAtStart = NoFile
    /\ local_ann = <<>>
    /\ loaded = <<>>
    /\ to_annotate = <<>>
    /\ annotated_unique = <<>>
    /\ new_ann = <<>>
    /\ service = <<>>
    /\ outputs = <<>>
    /\ failure = NoFailure
    /\ prev = NoPrev

\* Lines 58-85: every table is read, the cache is loaded and looked up.
CollectAndLookup ==
    /\ pc = "start"
    /\ LET unique == UniqueVars(excel_files)
           cached == LoadLocalAnnotations(cacheFile)
           merged == MergeLeft(unique, cached)
       IN  /\ local_ann' = cached
           /\ loaded' = cached
           /\ to_annotate' = IF cached # <<>> THEN ToAnnotate(merged) ELSE unique
           /\ annotated_unique' = IF cached # <<>> THEN DropAllNull(merged) ELSE <<>>
    /\ cacheAtStart' = cacheFile
    /\ pc' = "fetch"
    /\ UNCHANGED <<excel_files, cacheFile, today, runs, new_ann, service, outputs,
                   failure, prev>>

\* Line 69: pd.read_excel raises for one of the files; nothing catches it.
ReadFails ==
    /\ pc = "start"
    /\ \E i \in 1..Len(excel_files) : failure' = [cause |-> "read", file |-> i]
    /\ cacheAtStart' = cacheFile
    /\ pc' = "aborted"
    /\ UNCHANGED <<excel_files, cacheFile, today, runs, local_ann, loaded,
                   to_annotate, annotated_unique, new_ann, service, outputs, prev>>

\* Lines 87-122: the service answers for the requested keys; the answer is normalised, appended to
\* the cache, saved, and folded into annotated_unique.
Annotate ==
    /\ pc = "fetch"
    /\ to_annotate # <<>>
    /\ LET fresh == NormaliseResponse(ServiceTable(to_annotate, service), today)
           appended == AppendAnnotations(local_ann, fresh)
       IN  /\ new_ann' = fresh
           /\ local_ann' = appended
           /\ cacheFile' = SaveLocalAnnotations(appended)
           /\ annotated_unique' = CombineAfterFetch(annotated_unique, fresh)
    /\ pc' = "write"
    /\ UNCHANGED <<excel_files, today, runs, cacheAtStart, loaded, to_annotate, service,
                   outputs, failure, prev>>

\* gnb.annotate raises and the exception is swallowed: the run goes on to
\* write the tables from what the cache held.
ServiceFailsSwallowed ==
    /\ pc = "fetch"
    /\ to_annotate # <<>>
    /\ failure' = [cause |-> "service", file |-> 0]
    /\ pc' = "write"
    /\ UNCHANGED <<excel_files, cacheFile, today, runs, cacheAtStart, local_ann, loaded,
                   to_annotate, annotated_unique, new_ann, service, outputs, prev>>

\* Line 88: gnb.annotate raises; nothing catches it.
ServiceFails ==
    /\ pc = "fetch"
    /\ to_annotate # <<>>
    /\ failure' = [cause |-> "service", file |-> 0]
    /\ pc' = "aborted"
    /\ UNCHANGED <<excel_files, cacheFile, today, runs, cacheAtStart, local_ann, loaded,
                   to_annotate, annotated_unique, new_ann, service, outputs, prev>>

\* Lines 123-124: nothing to fetch.
ReuseCache ==
    /\ pc = "fetch"
    /\ to_annotate = <<>>
    /\ annotated_unique' = MergeLeft(UniqueVars(excel_files), local_ann)
    /\ pc' = "write"
    /\ UNCHANGED <<excel_files, cacheFile, today, runs, cacheAtStart, local_ann, loaded,
                   to_annotate, new_ann, service, outputs, failure, prev>>

NextFile == CHOOSE i \in 1..Len(excel_files) :
               /\ ~outputs[i].written
               /\ \A j \in 1..(i - 1) : outputs[j].written

\* Lines 129-139 for the next file of the loop.
WriteOutput ==
    /\ pc = "write"
    /\ LET i == NextFile
       IN  /\ outputs' = [outputs EXCEPT ![i] =
                  [written |-> TRUE,
                   rows |-> AnnotatedTable(excel_files[i], annotated_unique)]]
           /\ pc' = IF i = Len(excel_files) THEN "done" ELSE "write"
    /\ UNCHANGED <<excel_files, cacheFile, today, runs, cacheAtStart, local_ann, loaded,
                   to_annotate, annotated_unique, new_ann, service, failure, prev>>

\* Line 138: to_excel raises for the next file; nothing catches it.
WriteFails ==
    /\ pc = "write"
    /\ failure' = [cause |-> "write", file |-> NextFile]
    /\ pc' = "aborted"
    /\ UNCHANGED <<excel_files, cacheFile, today, runs, cacheAtStart, local_ann, loaded,
                   to_annotate, annotated_unique, new_ann, service, outputs, prev>>

ResetRun ==
    /\ pc' = "start"
    /\ local_ann' = <<>>
    /\ loaded' = <<>>
    /\ to_annotate' = <<>>
    /\ annotated_unique' = <<>>
    /\ new_ann' = <<>>
    /\ outputs' = [i \in 1..Len(excel_files) |-> NotWritten]
    /\ failure' = NoFailure
    /\ runs' = runs + 1
    /\ UNCHANGED <<excel_files, cacheFile, cacheAtStart>>

NextDay == IF today < MaxDay THEN {today, today + 1} ELSE {today}

\* The program is started again on the same folder, the same day or a later
\* one; the service may by then answer differently.
NextRun ==
    /\ pc \in {"done", "aborted"}
    /\ runs < MaxRuns
    /\ today' \in NextDay
    /\ service' \in Services
    /\ prev' = NoPrev
    /\ ResetRun

\* The program is started again on the same folder with the service
\* unchanged; the tables just written are kept for comparison.  One
\* repetition may follow the last run.
Rerun ==
    /\ pc = "done"
    /\ runs <= MaxRuns
    /\ today' \in NextDay
    /\ service' = service
    /\ prev' = [valid |-> TRUE, outputs |-> outputs]
    /\ ResetRun

(***************************************************************************)
(* brca_vcf_parser: build_variant_counts, then process_vcf_file per file.  *)
(***************************************************************************)
\* How a VCF file reads: "ok"; "unopenable" (open raises OSError);
\* "noheader" (no line starts with #CHROM); "unreadable" (read_csv raises);
\* "nokeycol" (one of CHROM, POS, REF, ALT is missing); "noinfo" (those four
\* are present and INFO is missing).
VcfKinds == {"ok", "unopenable", "noheader", "unreadable", "nokeycol", "noinfo"}

VcfRow(c, p) == [CHROM |-> c, POS |-> p, REF |-> <<"A">>, ALT |-> <<"G">>]
VcfRows == {VcfRow(Chr13, <<"5">>), VcfRow(Chr17, <<"5">>)}

VcfFiles == [kind : VcfKinds, rows : UNION {[1..m -> VcfRows] : m \in 0..MaxVcfRows}]
VcfBatches == SeqsUpTo(VcfFiles, MaxVcfFiles)

\* CHROM + "-" + POS + "-" + REF + "-" + ALT
VariantID(r) == r.CHROM \o <<"-">> \o r.POS \o <<"-">> \o r.REF \o <<"-">> \o r.ALT

VariantIDs(file) == {VariantID(file.rows[i]) : i \in 1..Len(file.rows)}

\* counts.get(vid, 0)
CountGet(counts, vid) == IF vid \in DOMAIN counts THEN counts[vid] ELSE 0

\* The files build_variant_counts does not skip.
Counted(file) == file.kind \in {"ok", "noinfo"}

\* The files process_vcf_file does not skip.
Parsed(file) == file.kind = "ok"

\* build_variant_counts.
RECURSIVE BuildCounts(_)
BuildCounts(files) ==
    IF files = <<>> THEN <<>>
    ELSE LET counts == BuildCounts(SubSeq(files, 1, Len(files) - 1))
             file == files[Len(files)]
         IN  IF ~Counted(file) THEN counts
             ELSE [vid \in (DOMAIN counts) \cup VariantIDs(file) |->
                      IF vid \in VariantIDs(file) THEN CountGet(counts, vid) + 1
                      ELSE counts[vid]]

\* f"{count}/{total_files}"
Render(count, total) == Digits(count) \o <<"/">> \o Digits(total)

\* The table process_vcf_file writes for a file it parses.
VcfTable(file, counts, total) ==
    [i \in 1..Len(file.rows) |->
        [VariantID |-> VariantID(file.rows[i]),
         VCF_COUNT |-> Render(CountGet(counts, VariantID(file.rows[i])), total)]]

NotProcessed == [status |-> "pending", rows |-> <<>>]

VcfInit ==
    /\ vcf_files \in VcfBatches
    /\ variant_counts = <<>>
    /\ vcfOut = [i \in 1..Len(vcf_files) |-> NotProcessed]
    /\ vcfPc = "count"

\* main, line 174.
BuildVariantCounts ==
    /\ vcfPc = "count"
    /\ variant_counts' = BuildCounts(vcf_files)
    /\ vcfPc' = "process"
    /\ UNCHANGED <<vcf_files, vcfOut>>

NextVcf == CHOOSE i \in 1..Len(vcf_files) :
              /\ vcfOut[i].status = "pending"
              /\ \A j \in 1..(i - 1) : vcfOut[j].status # "pending"

VcfAfter(i) == IF i = Len(vcf_files) THEN "annotate" ELSE "process"

\* process_vcf_file for the next file of main's loop: the file is skipped
\* with a diagnostic, or parsed and written.
ProcessVcfFile ==
    /\ vcfPc = "process"
    /\ LET i == NextVcf
       IN  /\ vcfOut' = [vcfOut EXCEPT ![i] =
                  IF Parsed(vcf_files[i])
                  THEN [status |-> "written",
                        rows |-> VcfTable(vcf_files[i], variant_counts,
                                          Len(vcf_files))]
                  ELSE [status |-> "skipped", rows |-> <<>>]]
           /\ vcfPc' = VcfAfter(i)
    /\ UNCHANGED <<vcf_files, variant_counts>>

\* Lines 148-153: the Excel writer raises; the error is printed and main's
\* loop goes on.
VcfWriteFails ==
    /\ vcfPc = "process"
    /\ LET i == NextVcf
       IN  /\ Parsed(vcf_files[i])
           /\ vcfOut' = [vcfOut EXCEPT ![i] = [status |-> "writeerror", rows |-> <<>>]]
           /\ vcfPc' = VcfAfter(i)
    /\ UNCHANGED <<vcf_files, variant_counts>>

VcfIdle ==
    /\ vcf_files = <<>>
    /\ variant_counts = <<>>
    /\ vcfOut = <<>>
    /\ vcfPc = "off"

NextVcfStage ==
    \/ BuildVariantCounts /\ UNCHANGED <<annVars, normVars>>
    \/ ProcessVcfFile /\ UNCHANGED <<annVars, normVars>>
    \/ VcfWriteFails /\ UNCHANGED <<annVars, normVars>>

(***************************************************************************)
(* The key normaliser on one variant, through its three origins: parsed    *)
(* from a source row, returned by the service, reloaded from the cache.    *)
(***************************************************************************)
NormChars == {"c", "h", "R", "1"}
ChromTexts == UNION {[1..m -> NormChars] : m \in 1..MaxChromLen}

NormInputs ==
    {SrcRow(StrCell(c), p, <<>>) :
        c \in ChromTexts, p \in {IntCell(5), StrCell(<<"5">>)}}
    \cup {SrcRow(IntCell(13), IntCell(5), <<>>)}

\* The service returns the key as it was sent.
EchoRow(k) == [chr |-> StrCell(k.chr), pos |-> StrCell(k.pos),
               ref |-> StrCell(k.ref), alt |-> StrCell(k.alt),
               freq |-> "0.1", gene |-> Null]

NoKey == MkKey(<<>>, <<>>, <<>>, <<>>)

NormInit ==
    /\ nRaw \in NormInputs
    /\ nSrc = NoKey
    /\ nSent = NoKey
    /\ nResp = NoKey
    /\ nStored = NoKey
    /\ nCache = NoKey
    /\ nPc = "raw"

\* Lines 67-74: the key of the row in var_df and unique_vars.
NormBuild ==
    /\ nPc = "raw"
    /\ nSrc' = BuildVariantKey(nRaw)
    /\ nPc' = "built"
    /\ UNCHANGED <<nRaw, nSent, nResp, nStored, nCache>>

\* Lines 87-109: the key is sent, the row that comes back is normalised and
\* saved with the cache.
NormFetch ==
    /\ nPc = "built"
    /\ \E row \in {EchoRow(nSrc)} \cup {ServiceRow(nSrc, kind) : kind \in ServiceKinds} :
          LET fresh == NormaliseResponse(<<row>>, 1)
          IN  /\ nResp' = fresh[1].key
              /\ nStored' = SaveLocalAnnotations(AppendAnnotations(<<>>, fresh)).rows[1].key
    /\ nSent' = nSrc
    /\ nPc' = "saved"
    /\ UNCHANGED <<nRaw, nSrc, nCache>>

\* Line 76 of the next run: the saved row is loaded.
NormReload ==
    /\ nPc = "saved"
    /\ nCache' = LoadLocalAnnotations(
                    SaveLocalAnnotations(<<AnnRow(nStored, Null, Null, Null)>>))[1].key
    /\ nPc' = "reloaded"
    /\ UNCHANGED <<nRaw, nSrc, nSent, nResp, nStored>>

NormIdle ==
    /\ nRaw = <<>>
    /\ nSrc = NoKey
    /\ nSent = NoKey
    /\ nResp = NoKey
    /\ nStored = NoKey
    /\ nCache = NoKey
    /\ nPc = "off"

NextNorm ==
    \/ NormBuild /\ UNCHANGED <<annVars, vcfVars>>
    \/ NormFetch /\ UNCHANGED <<annVars, vcfVars>>
    \/ NormReload /\ UNCHANGED <<annVars, vcfVars>>

Init == AnnInit /\ VcfIdle /\ NormIdle

Next ==
    \/ CollectAndLookup /\ UNCHANGED <<vcfVars, normVars>>
    \/ ReadFails /\ UNCHANGED <<vcfVars, normVars>>
    \/ Annotate /\ UNCHANGED <<vcfVars, normVars>>
    \/ ServiceFails /\ UNCHANGED <<vcfVars, normVars>>
    \/ ReuseCache /\ UNCHANGED <<vcfVars, normVars>>
    \/ WriteOutput /\ UNCHANGED <<vcfVars, normVars>>
    \/ WriteFails /\ UNCHANGED <<vcfVars, normVars>>
    \/ NextRun /\ UNCHANGED <<vcfVars, normVars>>

Spec == Init /\ [][Next]_vars

NextRerun ==
    \/ Next
    \/ Rerun /\ UNCHANGED <<vcfVars, normVars>>

SpecRerun == Init /\ [][NextRerun]_vars

InitVcf == AnnIdle /\ VcfInit /\ NormIdle
SpecVcf == InitVcf /\ [][NextVcfStage]_vars

InitNorm == AnnIdle /\ VcfIdle /\ NormInit
SpecNorm == InitNorm /\ [][NextNorm]_vars

(***************************************************************************)
(* Properties.                                                             *)
(***************************************************************************)
Written == {i \in 1..Len(outputs) : outputs[i].written}

\* The service returned at most one row for each key it was asked for.
AtMostOnePerKey == \A k \in Seq2Set(to_annotate) : Cardinality(service[k]) <= 1

Count(t, x) == Cardinality({i \in 1..Len(t) : t[i] = x})

SourcePart(row) == SrcRow(row.src.CHROM, row.src.POS, row.src.AF)

\* The table written for file i holds each row of the file exactly once.
SameRows(i) ==
    LET out == outputs[i].rows
        df == excel_files[i]
    IN  /\ Len(out) = Len(df)
        /\ \A j \in 1..Len(out) : ~out[j].src.missing
        /\ \A r \in SourceRows :
              Count([j \in 1..Len(out) |-> SourcePart(out[j])], r) = Count(df, r)

\* C1: whenever the service returns at most one row per requested key, every
\* table written has exactly the rows of its source file: as many rows, none
\* dropped for lack of an annotation, none duplicated by the left join.
C1_RowCountPreserved ==
    AtMostOnePerKey => \A i \in Written : SameRows(i)

\* A run on an existing cache that fetched something, left some key without
\* any annotation, and wrote a file that holds the same variant twice.
C1_Witness ==
    /\ pc = "done"
    /\ AtMostOnePerKey
    /\ loaded # <<>>
    /\ new_ann # <<>>
    /\ \E i \in Written :
          /\ Len(excel_files[i]) = 2
          /\ BuildVariantKey(excel_files[i][1]) = BuildVariantKey(excel_files[i][2])
    /\ \E i \in Written : \E j \in 1..Len(outputs[i].rows) :
          outputs[i].rows[j].ann = NoAnnotation

Attrs(r) == [freq |-> r.freq, gene |-> r.gene, FIRST_ANNOTATED |-> r.FIRST_ANNOTATED]

\* C2: every output row carries the attributes of the combined record of its
\* key: a key the cache did not hold and the service returned a row for shows
\* that row's attributes, and a row is all missing values only when neither
\* the cache nor the response holds a record for its key.
C2_OutputCarriesCombinedRecord ==
    AtMostOnePerKey =>
        \A i \in Written : \A j \in 1..Len(outputs[i].rows) :
            LET row == outputs[i].rows[j]
                k == BuildVariantKey(SourcePart(row))
                cached == Matches(loaded, k)
                fresh == Matches(new_ann, k)
            IN  ~row.src.missing =>
                  /\ (cached = <<>> /\ fresh # <<>>) => row.ann = Attrs(fresh[1])
                  /\ row.ann = NoAnnotation => (cached = <<>> /\ fresh = <<>>)

\* The keys of the batch the cache holds no record for, or a record whose
\* annotation attributes are all missing.
MissKeys ==
    {k \in Seq2Set(UniqueVars(excel_files)) :
        \/ Matches(loaded, k) = <<>>
        \/ \A i \in 1..Len(loaded) :
              loaded[i].key = k => (loaded[i].freq = Null /\ loaded[i].gene = Null)}

\* C3: the keys sent to the service are exactly the distinct keys of the batch
\* with no cached record or with a cached record whose annotation attributes
\* are all missing; a record with one attribute present and one missing is a
\* hit and is not sent.
C3_OnlyMissesAreSent ==
    pc \in {"fetch", "write", "done"} => Seq2Set(to_annotate) = MissKeys

\* C4: a record the cache file holds is still there, with the same attribute
\* values and the same FIRST_ANNOTATED, after any step, and stays the only
\* record of its key.
C4_KeepFirst ==
    [][\A i \in 1..Len(cacheFile.rows) :
          /\ \E j \in 1..Len(cacheFile'.rows) : cacheFile'.rows[j] = cacheFile.rows[i]
          /\ \A j \in 1..Len(cacheFile'.rows) :
                cacheFile'.rows[j].key = cacheFile.rows[i].key
                    => cacheFile'.rows[j] = cacheFile.rows[i]]_vars

\* A key cached on an earlier day was fetched again, the service returned a
\* different record for it, and the cache was saved.
C4_Witness ==
    /\ pc = "write"
    /\ cacheFile # cacheAtStart
    /\ \E i \in 1..Len(loaded) : \E j \in 1..Len(new_ann) :
          /\ new_ann[j].key = loaded[i].key
          /\ new_ann[j].freq # loaded[i].freq
          /\ new_ann[j].FIRST_ANNOTATED # loaded[i].FIRST_ANNOTATED

\* C5: no two records of the saved cache file have the same variant key, as
\* stored and as the next load normalises it.
C5_NoDuplicateKeys ==
    LET reloaded == LoadLocalAnnotations(cacheFile)
    IN  \A i, j \in 1..Len(cacheFile.rows) :
            i # j => /\ cacheFile.rows[i].key # cacheFile.rows[j].key
                     /\ reloaded[i].key # reloaded[j].key

\* The cache was saved after the service returned the same key twice, once
\* with a prefix and once integer-typed, for a key the cache already held.
C5_Witness ==
    /\ pc = "write"
    /\ cacheAtStart.exists
    /\ cacheFile # cacheAtStart
    /\ \E k \in Seq2Set(to_annotate) :
          /\ service[k] = ServiceKinds
          /\ Matches(loaded, k) # <<>>
          /\ Len(Matches(new_ann, k)) = 2

\* Removal of a leading "chr" prefix, in any letter case, and of nothing else.
StripLeadingChr(s) == IF MatchesChrAt(s, 1) THEN SubSeq(s, 4, Len(s)) ELSE s

\* C6: the same variant gets the same key from a parsed source row, from the
\* service response and from the reloaded cache, and the normaliser removes
\* only a leading prefix.
C6_OneKeyFromAllOrigins ==
    nPc = "reloaded" =>
        /\ nResp = nSrc
        /\ nCache = nSrc
        /\ nSrc.chr = StripLeadingChr(AsTypeStr(nRaw.CHROM))

\* The number of files of the batch that parse and contain the variant.
FilesContaining(vid) ==
    Cardinality({j \in 1..Len(vcf_files) :
                    Parsed(vcf_files[j]) /\ vid \in VariantIDs(vcf_files[j])})

\* C7: every VCF_COUNT written is "c/N" with c the number of files that
\* contain the variant, a skipped file counting for nothing, and N the
\* number of files attempted.
C7_CountOverParsedFiles ==
    \A i \in 1..Len(vcfOut) : \A j \in 1..Len(vcfOut[i].rows) :
        vcfOut[i].rows[j].VCF_COUNT =
            Render(FilesContaining(vcfOut[i].rows[j].VariantID), Len(vcf_files))

\* C8: a run repeated on the same files with the service unchanged writes
\* the same tables as the run before it.
C8_RerunWritesSameTables ==
    (pc = "done" /\ prev.valid /\ \A k \in SourceKeys : Cardinality(service[k]) <= 1)
        => outputs = prev.outputs

\* C9: a file that cannot be read or written is the only file of the run
\* without an output.
C9_FileErrorsAreLocal ==
    (pc \in {"done", "aborted"} /\ failure.cause \in {"none", "read", "write"})
        => \A i \in 1..Len(excel_files) : i # failure.file => outputs[i].written

\* C10: once the service call has failed the run is over, the cache file is
\* what the run found and no table has been written.
C10_ServiceFailureAborts ==
    failure.cause = "service" =>
        /\ pc = "aborted"
        /\ cacheFile = cacheAtStart
        /\ Written = {}

\* The service failed in a run that found a cache and had keys to fetch.
C10_Witness ==
    /\ failure.cause = "service"
    /\ cacheAtStart.exists
    /\ Len(to_annotate) = 2

====
